---- MODULE Spec2Model ----
(***************************************************************************)
(* A model of the BM-AI backend: marker-based extraction of rows from a    *)
(* workbook (services/document_utils.py), batch ingestion of a folder      *)
(* (routers/upload.py), the vector store service (services/vector_store.py)*)
(* and the answering pipeline (services/chat_service.py, routers/chat.py). *)
(*                                                                         *)
(* Text is modelled as a sequence of one-character strings, so that        *)
(* lower(), "in", endswith() and join() are computed, not assumed.         *)
(***************************************************************************)
EXTENDS Integers, Sequences, FiniteSets, TLC

VARIABLES
    \* ---- extraction (extract_info_from_excel)
    xpc,            \* "idle" | "input" | "done"
    wb,             \* the workbook: a sequence of sheets, each a sequence of rows
    extracted,      \* the value extract_info_from_excel returned
    \* ---- the vector store service and the Qdrant server behind it
    vectorstore,    \* vector_store_service.vectorstore is set (TRUE) or None
    collections,    \* the collections of the Qdrant server
    points,         \* the documents held by the collection, in insertion order
    \* ---- process_folder_files (one batch run)
    bpc,            \* "idle" | "loop" | "returned" | "raised"
    max_files,      \* the cap the call was given, 0 for None
    discovered,     \* the supported files in the order os.walk yielded them
    all_files,      \* the discovered, capped file list
    next_i,         \* position of the loop over all_files
    file_results,
    total_documents,
    successful_files,
    failed_files,
    processing_summary,
    report,         \* the FolderUploadResponse returned, <<>> before
    events,         \* per handled file: how extraction ended and what
                    \* add_documents did for it
    \* ---- the chat service and the last /chat and /upload requests
    qa_chain,       \* chat_service.qa_chain is set (TRUE) or None
    chat_outcome,   \* "none" | "returned" | "raised": how get_answer ended
    call,           \* the question and what the LLM and the index did (history)
    result,         \* the dict get_answer returned
    response,       \* the ChatResponse of the endpoint
    upload_response, \* what /upload answered last
    server,         \* the Qdrant server as a start of the service would meet it
    \* ---- document creation (document_utils.py 113-191)
    dataset,        \* the extracted_data handed to document creation
    selected,       \* what get_smart_text_splitter returned for its content
    made,           \* the content, the splitter applied and the documents made
    mixed,          \* a run of process_mixed_folder_to_documents: its locals
    \* ---- calls of the vector store service (history)
    store_call,     \* the last call: its arguments, outcome and log lines
    creates,        \* create_collection calls the server accepted
    starts          \* constructions of the service

extractVars == <<xpc, wb, extracted>>

storeVars == <<vectorstore, collections, points>>

batchVars == <<bpc, max_files, discovered, all_files, next_i, file_results, total_documents,
               successful_files, failed_files, processing_summary, report,
               events>>

chatVars == <<qa_chain, chat_outcome, call, result, response, upload_response,
              server>>

chunkVars == <<dataset, selected, made, mixed>>

svcVars == <<store_call, creates, starts>>

vars == <<extractVars, storeVars, batchVars, chatVars, chunkVars, svcVars>>

(***************************************************************************)
(* Bounds of the model.                                                    *)
(***************************************************************************)
MaxSheets == 2
MaxTotalRows == 3
MaxFolder == 3
MaxPoints == 3
MaxChunkRows == 7
MaxRestarts == 2
MaxK == 4
WideCells == 11

(***************************************************************************)
(* Text helpers: Python's str.lower, "sub in s", str.endswith, join.       *)
(***************************************************************************)
UpperAlpha ==
    <<"A","B","C","D","E","F","G","H","I","J","K","L","M",
      "N","O","P","Q","R","S","T","U","V","W","X","Y","Z">>

LowerAlpha ==
    <<"a","b","c","d","e","f","g","h","i","j","k","l","m",
      "n","o","p","q","r","s","t","u","v","w","x","y","z">>

LowerChar(c) ==
    IF \E i \in 1..26 : UpperAlpha[i] = c
    THEN LowerAlpha[CHOOSE i \in 1..26 : UpperAlpha[i] = c]
    ELSE c

Lower(s) == [i \in 1..Len(s) |-> LowerChar(s[i])]

Contains(s, sub) ==
    \E i \in 0..(Len(s) - Len(sub)) :
        \A j \in 1..Len(sub) : s[i + j] = sub[j]

EndsWith(s, suf) ==
    /\ Len(suf) <= Len(s)
    /\ \A j \in 1..Len(suf) : s[Len(s) - Len(suf) + j] = suf[j]

RECURSIVE ConcatAll(_)
ConcatAll(ss) ==
    IF ss = <<>> THEN <<>> ELSE Head(ss) \o ConcatAll(Tail(ss))

(***************************************************************************)
(* Cells of a sheet as openpyxl yields them with values_only=True.         *)
(***************************************************************************)
NoneCell == [t |-> "none"]
StrCell(s) == [t |-> "str", s |-> s]
IntCell(n) == [t |-> "int", n |-> n]

\* Python truthiness of a cell value
Truthy(cell) ==
    CASE cell.t = "none" -> FALSE
      [] cell.t = "str"  -> cell.s # <<>>
      [] cell.t = "int"  -> cell.n # 0

\* the literal of document_utils.py line 40
MARKER == <<"a","d","d","i","t","i","o","n","a","l"," ","n","o","t","e","s",":">>

(***************************************************************************)
(* extract_info_from_excel (document_utils.py 13-43)                       *)
(***************************************************************************)
\* the test without lower(): only the lowercase spelling would trigger
cell_triggers_CaseSensitive(cell) ==
    /\ Truthy(cell)
    /\ cell.t = "str"
    /\ Contains(cell.s, MARKER)

\* line 40: cell and isinstance(cell, str) and "additional notes:" in cell.lower()
cell_triggers(cell) ==
    /\ Truthy(cell)
    /\ cell.t = "str"
    /\ Contains(Lower(cell.s), MARKER)

row_triggers(row) == \E i \in 1..Len(row) : cell_triggers(row[i])

\* the filter as "if cell" would make it: empty strings and zeros go too
filter_row_Truthy(row) == SelectSeq(row, Truthy)

\* line 35: [cell for cell in row if cell is not None]
filter_row(row) == SelectSeq(row, LAMBDA cell : cell.t # "none")

\* the flag as it would be were it set once, before the loop over sheets
sheet_found_init_Carry(prev_found) == prev_found

\* line 29: found = False, at the start of every sheet
sheet_found_init(prev_found) == FALSE

\* lines 32-41: the scan of one sheet, st = [found, data]
RECURSIVE scan_rows(_, _, _)
scan_rows(rows, i, st) ==
    IF i > Len(rows) THEN st
    ELSE IF st.found
         THEN LET filtered_row == filter_row(rows[i])
              IN scan_rows(rows, i + 1,
                     [st EXCEPT !.data = IF filtered_row # <<>>
                                         THEN Append(@, filtered_row)
                                         ELSE @])
         ELSE scan_rows(rows, i + 1,
                     [st EXCEPT !.found = row_triggers(rows[i])])

\* lines 27-41: the loop over wb.sheetnames
RECURSIVE scan_sheets(_, _, _)
scan_sheets(book, k, st) ==
    IF k > Len(book) THEN st
    ELSE scan_sheets(book, k + 1,
             scan_rows(book[k], 1,
                 [st EXCEPT !.found = sheet_found_init(st.found)]))

extract_info_from_excel(book) ==
    scan_sheets(book, 1, [found |-> FALSE, data |-> <<>>]).data

(***************************************************************************)
(* Content and documents (document_utils.py 46-191)                        *)
(***************************************************************************)
RECURSIVE Digits(_)
Digits(n) ==
    LET d == <<"0","1","2","3","4","5","6","7","8","9">>[(n % 10) + 1]
    IN  IF n < 10 THEN <<d>> ELSE Append(Digits(n \div 10), d)

\* str(cell) of line 85
Str(cell) ==
    CASE cell.t = "str"  -> cell.s
      [] cell.t = "int"  -> IF cell.n < 0 THEN <<"-">> \o Digits(-cell.n)
                            ELSE Digits(cell.n)
      [] cell.t = "none" -> <<"N","o","n","e">>

RECURSIVE Join(_, _)
Join(sep, parts) ==
    IF parts = <<>> THEN <<>>
    ELSE IF Len(parts) = 1 THEN parts[1]
    ELSE parts[1] \o sep \o Join(sep, Tail(parts))

SepPara  == <<"\n", "\n">>
SepLine  == <<"\n">>
SepField == <<" ", "|", " ">>
SepSpace == <<" ">>
SepNone  == <<>>

\* line 85
convert_extracted_data_to_content(extracted_data) ==
    Join(SepLine,
         [r \in 1..Len(extracted_data) |->
            Join(SepField,
                 [c \in 1..Len(extracted_data[r]) |-> Str(extracted_data[r][c])])])

\* lines 53-57 and 68-72
DocChunkSize == 1000
DocChunkOverlap == 200
EntryChunkSize == 600
EntryChunkOverlap == 50

Separators == <<SepPara, SepLine, SepField, SepSpace, SepNone>>

get_default_text_splitter ==
    [chunk_size |-> DocChunkSize, chunk_overlap |-> DocChunkOverlap,
     separators |-> Separators]

get_entry_based_text_splitter ==
    [chunk_size |-> EntryChunkSize, chunk_overlap |-> EntryChunkOverlap,
     separators |-> Separators]

\* content.split('\n'), line 124
RECURSIVE SplitOn(_, _)
SplitOn(text, sep) ==
    IF ~Contains(text, sep) THEN <<text>>
    ELSE LET p == CHOOSE i \in 0..(Len(text) - Len(sep)) :
                     /\ \A j \in 1..Len(sep) : text[i + j] = sep[j]
                     /\ \A k \in 0..(i - 1) :
                          \E j \in 1..Len(sep) : text[k + j] # sep[j]
         IN  <<SubSeq(text, 1, p)>>
               \o SplitOn(SubSeq(text, p + Len(sep) + 1, Len(text)), sep)

RECURSIVE SumLen(_)
SumLen(ss) == IF ss = <<>> THEN 0 ELSE Len(Head(ss)) + SumLen(Tail(ss))

LineThreshold == 5
AvgLineLengthThreshold == 150

\* the selection with "<= 150" for the mean line length
get_smart_text_splitter_Inclusive(content) ==
    LET lines == SplitOn(content, SepLine)
    IN  IF Len(lines) > LineThreshold
           /\ SumLen(lines) <= AvgLineLengthThreshold * Len(lines)
        THEN get_entry_based_text_splitter
        ELSE get_default_text_splitter

\* lines 124-131; avg_line_length < 150 is compared without the division
get_smart_text_splitter(content) ==
    LET lines == SplitOn(content, SepLine)
    IN  IF Len(lines) > LineThreshold
           /\ SumLen(lines) < AvgLineLengthThreshold * Len(lines)
        THEN get_entry_based_text_splitter
        ELSE get_default_text_splitter

(***************************************************************************)
(* RecursiveCharacterTextSplitter as the repository configures it          *)
(* (keep_separator and strip_whitespace at their defaults, len as length). *)
(***************************************************************************)
IsSpace(c) == c \in {" ", "\n", "\t", "\r"}

RECURSIVE LStrip(_)
LStrip(s) == IF s # <<>> /\ IsSpace(Head(s)) THEN LStrip(Tail(s)) ELSE s

RECURSIVE RStrip(_)
RStrip(s) ==
    IF s # <<>> /\ IsSpace(s[Len(s)]) THEN RStrip(SubSeq(s, 1, Len(s) - 1))
    ELSE s

Strip(s) == RStrip(LStrip(s))

\* the pieces of text around sep, each but the first led by the separator;
\* with the empty separator the characters of the text; empty pieces dropped
split_text_with_regex(text, sep) ==
    LET pieces == IF sep = <<>>
                  THEN [i \in 1..Len(text) |-> <<text[i]>>]
                  ELSE LET raw == SplitOn(text, sep)
                       IN  [i \in 1..Len(raw) |->
                              IF i = 1 THEN raw[1] ELSE sep \o raw[i]]
    IN  SelectSeq(pieces, LAMBDA x : x # <<>>)

\* the first separator of the list that is empty or occurs in the text
RECURSIVE PickSeparator(_, _, _)
PickSeparator(text, separators, i) ==
    IF i > Len(separators)
    THEN [separator |-> separators[Len(separators)], new_separators |-> <<>>]
    ELSE IF separators[i] = <<>>
         THEN [separator |-> <<>>, new_separators |-> <<>>]
         ELSE IF Contains(text, separators[i])
              THEN [separator |-> separators[i],
                    new_separators |-> SubSeq(separators, i + 1, Len(separators))]
              ELSE PickSeparator(text, separators, i + 1)

\* the loop never run: the pieces of a chunk all stay for the next one
PopHead_KeepAll(cur, total, len, sp) == [cur |-> cur, total |-> total]

\* the while loop of _merge_splits that drops the head of current_doc
RECURSIVE PopHead(_, _, _, _)
PopHead(cur, total, len, sp) ==
    IF total > sp.chunk_overlap \/ (total + len > sp.chunk_size /\ total > 0)
    THEN PopHead(Tail(cur), total - Len(Head(cur)), len, sp)
    ELSE [cur |-> cur, total |-> total]

\* _merge_splits with the separator "" (keep_separator)
RECURSIVE merge_splits(_, _, _, _)
merge_splits(splits, i, st, sp) ==
    IF i > Len(splits)
    THEN LET doc == Strip(ConcatAll(st.cur))
         IN  IF doc # <<>> THEN Append(st.docs, doc) ELSE st.docs
    ELSE LET d == splits[i]
         IN  IF st.total + Len(d) > sp.chunk_size /\ st.cur # <<>>
             THEN LET doc == Strip(ConcatAll(st.cur))
                      popped == PopHead(st.cur, st.total, Len(d), sp)
                  IN  merge_splits(splits, i + 1,
                          [docs  |-> IF doc # <<>> THEN Append(st.docs, doc)
                                     ELSE st.docs,
                           cur   |-> Append(popped.cur, d),
                           total |-> popped.total + Len(d)], sp)
             ELSE merge_splits(splits, i + 1,
                          [docs  |-> st.docs,
                           cur   |-> Append(st.cur, d),
                           total |-> st.total + Len(d)], sp)

MergeAll(good, sp) ==
    IF good = <<>> THEN <<>>
    ELSE merge_splits(good, 1, [docs |-> <<>>, cur |-> <<>>, total |-> 0], sp)

RECURSIVE split_text_rec(_, _, _)
RECURSIVE split_pieces(_, _, _, _, _, _)
\* the loop over the splits of _split_text: good holds the pending short
\* pieces, final the chunks made so far
split_pieces(splits, i, good, final, new_separators, sp) ==
    IF i > Len(splits) THEN final \o MergeAll(good, sp)
    ELSE LET s == splits[i]
         IN  IF Len(s) < sp.chunk_size
             THEN split_pieces(splits, i + 1, Append(good, s), final,
                               new_separators, sp)
             ELSE split_pieces(splits, i + 1, <<>>,
                      (final \o MergeAll(good, sp))
                         \o (IF new_separators = <<>> THEN <<s>>
                             ELSE split_text_rec(s, new_separators, sp)),
                      new_separators, sp)

split_text_rec(text, separators, sp) ==
    LET pick == PickSeparator(text, separators, 1)
    IN  split_pieces(split_text_with_regex(text, pick.separator), 1,
                     <<>>, <<>>, pick.new_separators, sp)

\* a splitter that hands an empty text back as one chunk
split_text_OneUnit(sp, text) ==
    IF text = <<>> THEN << <<>> >> ELSE split_text_rec(text, sp.separators, sp)

split_text(sp, text) == split_text_rec(text, sp.separators, sp)

\* TextSplitter.split_documents: every chunk carries its document's metadata
split_documents(sp, documents) ==
    ConcatAll([d \in 1..Len(documents) |->
        LET chunks == split_text(sp, documents[d].page_content)
        IN  [c \in 1..Len(chunks) |->
                [page_content |-> chunks[c],
                 metadata |-> documents[d].metadata]]])

\* lines 102-110; a dict is a function on its keys, update() overrides
create_document_from_content(content, filename, source, additional_metadata) ==
    [page_content |-> content,
     metadata |-> additional_metadata
                    @@ [filename |-> filename, source |-> source]]

\* line 158: the splitter create_documents_from_extracted_data applies
extracted_data_splitter(content) == get_smart_text_splitter(content)

\* line 190: the splitter create_documents_from_excel_sheets applies
excel_sheets_splitter(content) == get_default_text_splitter

\* lines 148-159
create_documents_from_extracted_data(extracted_data, filename, source, additional_metadata) ==
    IF extracted_data = <<>> THEN <<>>
    ELSE LET content == convert_extracted_data_to_content(extracted_data)
             doc == create_document_from_content(content, filename, source,
                                                 additional_metadata)
         IN  split_documents(extracted_data_splitter(content), <<doc>>)

\* lines 173-191
create_documents_from_excel_sheets(extracted_data, filename) ==
    LET documents ==
          IF extracted_data # <<>>
          THEN << [page_content |->
                      convert_extracted_data_to_content(extracted_data),
                   metadata |-> [filename |-> filename,
                                 source |-> "excel_extraction"]] >>
          ELSE <<>>
    IN  split_documents(
            excel_sheets_splitter(
                convert_extracted_data_to_content(extracted_data)),
            documents)

(***************************************************************************)
(* Sample rows (two columns wide) the workbooks are built from.            *)
(***************************************************************************)
sX == <<"x">>
sMarkerMixed ==
    <<"A","d","d","i","t","i","o","n","a","l"," ","N","o","t","e","s",":">>
sMarkerInside ==
    <<"s","e","e"," ","A","D","D","I","T","I","O","N","A","L"," ",
      "N","O","T","E","S",":"," ","y">>
sNoColon ==
    <<"a","d","d","i","t","i","o","n","a","l"," ","n","o","t","e","s">>

RowNull       == <<NoneCell, NoneCell>>
RowMarker     == <<StrCell(sMarkerMixed), NoneCell>>
RowData       == <<StrCell(sX), IntCell(1)>>
RowHalf       == <<NoneCell, StrCell(<<>>)>>
RowMarkerData == <<IntCell(2), StrCell(sMarkerInside)>>
RowNearMiss   == <<StrCell(sNoColon), IntCell(0)>>

RowSamples ==
    {RowNull, RowMarker, RowData, RowHalf, RowMarkerData, RowNearMiss}

\* the workbook with sheets cut out of the flat row sequence rows at the
\* positions cuts (nondecreasing, each in 0..Len(rows))
SheetsOf(rows, cuts) ==
    [k \in 1..(Len(cuts) + 1) |->
        LET lo == IF k = 1 THEN 0 ELSE cuts[k - 1]
            hi == IF k = Len(cuts) + 1 THEN Len(rows) ELSE cuts[k]
        IN  SubSeq(rows, lo + 1, hi)]

\* the cut positions of a workbook of ns sheets over n rows
Cuts(n, ns) ==
    { c \in [1..(ns - 1) -> 0..n] :
        \A a, b \in 1..(ns - 1) : a < b => c[a] <= c[b] }

(***************************************************************************)
(* The vector store service (vector_store.py)                              *)
(***************************************************************************)
COLLECTION_NAME == "building_logs"
VECTOR_SIZE == 768

\* the output size of models/text-embedding-004 (lines 18 and 83)
EMBEDDING_SIZE == 768

Collection(name, size) == [name |-> name, size |-> size, distance |-> "Cosine"]

Named(cols, name) == { c \in cols : c.name = name }

\* the collection of the service holds vectors of the embedding's size
DimensionsAgree(cols) ==
    \A c \in Named(cols, COLLECTION_NAME) : c.size = EMBEDDING_SIZE

\* lines 84-90: the server's create_collection refuses a name that exists
create_collection(cols, name, size) ==
    IF Named(cols, name) # {}
    THEN [raised |-> TRUE, collections |-> cols]
    ELSE [raised |-> FALSE, collections |-> cols \cup {Collection(name, size)}]

\* the test as it would be were the collection created at every start
collection_missing_Always(cols) == TRUE

\* line 79: self.collection_name not in collection_names
collection_missing(cols) == Named(cols, COLLECTION_NAME) = {}

\* lines 72-96: raised is the RuntimeError of line 96
ensure_collection_exists(cols) ==
    IF collection_missing(cols)
    THEN LET c == create_collection(cols, COLLECTION_NAME, VECTOR_SIZE)
         IN  [raised |-> c.raised, created |-> ~c.raised,
              collections |-> c.collections,
              log |-> IF c.raised THEN <<"info: creating">>
                      ELSE <<"info: creating", "info: created">>]
    ELSE [raised |-> FALSE, created |-> FALSE, collections |-> cols,
          log |-> <<"info: already exists">>]

\* a constructor that takes the collection as it is
vectorstore_constructs_Unchecked(cols, constructs) == constructs

\* lines 51-55: QdrantVectorStore(...) checks the collection against the
\* embedding (size and distance) and raises when they differ; constructs is
\* whether nothing else fails in it
vectorstore_constructs(cols, constructs) ==
    /\ constructs
    /\ \E c \in Named(cols, COLLECTION_NAME) :
          c.size = EMBEDDING_SIZE /\ c.distance = "Cosine"

\* the three logger.error lines of 59-61
InitErrorLog == <<"error: initializing", "error: make sure", "error: docker">>

\* lines 41-61: env is what the server and the QdrantVectorStore constructor
\* do at startup; every failure is logged and leaves vectorstore None
initialize_vectorstore(env) ==
    IF ~env.reachable
    THEN [vectorstore |-> FALSE, collections |-> env.collections,
          created |-> FALSE, ensure_raised |-> FALSE, log |-> InitErrorLog]
    ELSE LET e == ensure_collection_exists(env.collections)
             built == ~e.raised
                      /\ vectorstore_constructs(e.collections,
                                                env.store_constructs)
         IN  [vectorstore |-> built, collections |-> e.collections,
              created |-> e.created, ensure_raised |-> e.raised,
              log |-> (<<"info: connected">> \o e.log)
                        \o (IF built THEN <<"info: initialized">>
                            ELSE InitErrorLog)]

\* what the server holds before a start: nothing, the collection of the
\* service, a collection of that name made for another embedding, or a
\* collection of another name
ServerCollections ==
    { {}, {Collection(COLLECTION_NAME, VECTOR_SIZE)},
      {Collection(COLLECTION_NAME, 384)}, {Collection("other", 384)} }

StartupEnvs ==
    [reachable : BOOLEAN, store_constructs : BOOLEAN,
     collections : ServerCollections]

\* the method without its test: as_retriever is called on None and raises
get_retriever_Unguarded(vs, k) ==
    IF vs THEN [t |-> "retriever", k |-> k] ELSE [t |-> "raised"]

\* lines 103-107: as_retriever(search_kwargs={"k": k}), or None
get_retriever(vs, k) ==
    IF vs THEN [t |-> "retriever", k |-> k] ELSE [t |-> "none"]

\* lines 98-101: the log lines add_documents writes
add_documents_log(vs, documents) == <<>>

\* lines 98-101: index_ok is whether the store's own add_documents
\* (embedding and upsert) succeeds; it is read only when the call is made
add_documents(vs, documents, index_ok) ==
    IF vs /\ documents # <<>>
    THEN IF index_ok
         THEN [raised |-> FALSE, called |-> TRUE,  added |-> documents]
         ELSE [raised |-> TRUE,  called |-> TRUE,  added |-> <<>>]
    ELSE      [raised |-> FALSE, called |-> FALSE, added |-> <<>>]

(***************************************************************************)
(* Files on disk.  A file is its name and what the libraries make of it:   *)
(* tables is what tabula finds in a PDF ("some", "none", or "error" when   *)
(* it raises), readable whether openpyxl.load_workbook succeeds on the     *)
(* workbook (the converted one for a PDF), book that workbook.             *)
(***************************************************************************)
ExtPdf  == <<".", "p", "d", "f">>
ExtXlsx == <<".", "x", "l", "s", "x">>
ExtXls  == <<".", "x", "l", "s">>

WbNotes      == << <<RowMarker, RowData, RowHalf>> >>
WbNoMarker   == << <<RowData, RowNearMiss>> >>
WbMarkerLast == << <<RowData, RowMarker, RowNull>> >>
WbBlank      == << <<RowMarker, <<StrCell(<<" ">>), NoneCell>>>> >>

DiskFile(name, tables, readable, book) ==
    [filename |-> name, tables |-> tables, readable |-> readable, book |-> book]

DiskFiles ==
    { DiskFile(<<"a">> \o ExtPdf, "some", TRUE, WbNotes),
      DiskFile(<<"b">> \o ExtPdf, "none", FALSE, <<>>),
      DiskFile(<<"c", ".", "P", "D", "F">>, "some", TRUE, WbNoMarker),
      DiskFile(<<"d">> \o ExtPdf, "some", FALSE, <<>>),
      DiskFile(<<"e">> \o ExtPdf, "error", FALSE, <<>>),
      DiskFile(<<"f">> \o ExtXlsx, "na", TRUE, WbNotes),
      DiskFile(<<"g">> \o ExtXlsx, "na", TRUE, WbMarkerLast),
      DiskFile(<<"h">> \o ExtXls, "na", FALSE, <<>>),
      DiskFile(<<"i">> \o ExtPdf, "some", TRUE, WbBlank),
      DiskFile(<<"n", ".", "t", "x", "t">>, "na", FALSE, <<>>) }

\* os.path.basename of a path of the folder
basename(file) == file.filename

(***************************************************************************)
(* PDFProcessor (pdf_processor.py)                                         *)
(***************************************************************************)
\* lines 35-63: True iff tabula returned tables and they were written
convert_pdf_to_excel(file) == file.tables = "some"

\* lines 98-113; extracted_data None is <<>>, only its truth value is read
process_single_pdf(file) ==
    IF ~convert_pdf_to_excel(file)
    THEN [success |-> FALSE, extracted_data |-> <<>>]
    ELSE IF ~file.readable
         THEN [success |-> FALSE, extracted_data |-> <<>>]
         ELSE [success |-> TRUE,
               extracted_data |-> extract_info_from_excel(file.book)]

\* excel_processer.py 23-30: load_workbook raises on an unreadable file
process_excel_to_documents(file) ==
    IF ~file.readable
    THEN [raised |-> TRUE, documents |-> <<>>]
    ELSE [raised |-> FALSE,
          documents |-> create_documents_from_excel_sheets(
                            extract_info_from_excel(file.book), basename(file))]

(***************************************************************************)
(* process_folder_files (upload.py 141-237)                                *)
(***************************************************************************)
\* line 156
is_supported(name) ==
    \/ EndsWith(Lower(name), ExtPdf)
    \/ EndsWith(Lower(name), ExtXlsx)
    \/ EndsWith(Lower(name), ExtXls)

\* line 166
file_type_of(filename) ==
    IF EndsWith(Lower(filename), ExtPdf) THEN "pdf" ELSE "excel"

\* a cap that lets one file more through
cap_files_OneMore(files, cap) ==
    IF cap # 0
    THEN SubSeq(files, 1, IF cap + 1 < Len(files) THEN cap + 1 ELSE Len(files))
    ELSE files

\* lines 160-161: max_files None is 0, which Python also treats as no cap
cap_files(files, cap) ==
    IF cap # 0
    THEN SubSeq(files, 1, IF cap < Len(files) THEN cap ELSE Len(files))
    ELSE files

\* FileProcessingResult; error_message None is <<>>, a message <<text>>
FileProcessingResult(filename, success, documents_processed, error_message, file_type) ==
    [filename |-> filename, success |-> success,
     documents_processed |-> documents_processed,
     error_message |-> error_message, file_type |-> file_type]

\* a success that leaves processing_summary as it was
Succeeded_NoSummary(filename, file_type, documents, add) ==
    [exc |-> "none", add |-> add,
     result |-> FileProcessingResult(filename, TRUE, Len(documents), <<>>,
                                     file_type),
     documents |-> Len(documents), successful |-> 1, failed |-> 0,
     kind |-> "none"]

\* the success record and counter increments of lines 183-192 and 208-217
Succeeded(filename, file_type, documents, add) ==
    [exc |-> "none", add |-> add,
     result |-> FileProcessingResult(filename, TRUE, Len(documents), <<>>,
                                     file_type),
     documents |-> Len(documents), successful |-> 1, failed |-> 0,
     kind |-> file_type]

\* the failure record and increment of lines 194-201
Failed(filename, file_type, message) ==
    [exc |-> "none", add |-> [raised |-> FALSE, called |-> FALSE, added |-> <<>>],
     result |-> FileProcessingResult(filename, FALSE, 0, <<message>>, file_type),
     documents |-> 0, successful |-> 0, failed |-> 1, kind |-> "none"]

\* an exception leaving the try body
Raised(exc, add) ==
    [exc |-> exc, add |-> add, result |-> <<>>,
     documents |-> 0, successful |-> 0, failed |-> 0, kind |-> "none"]

\* lines 169-217: the body of the try statement for one file
try_body(file, vs, index_ok) ==
    LET filename == basename(file)
        file_type == file_type_of(filename)
    IN  IF file_type = "pdf"
        THEN LET r == process_single_pdf(file)
             IN  IF r.success /\ r.extracted_data # <<>>
                 THEN LET documents == create_documents_from_extracted_data(
                                 r.extracted_data, filename, "pdf_extraction",
                                 [original_format |-> "pdf"])
                          add == add_documents(vs, documents, index_ok)
                      IN  IF add.raised THEN Raised("index_error", add)
                          ELSE Succeeded(filename, file_type, documents, add)
                 ELSE Failed(filename, file_type,
                             "Failed to extract data from PDF")
        ELSE LET p == process_excel_to_documents(file)
                 add == add_documents(vs, p.documents, index_ok)
             IN  IF p.raised
                 THEN Raised("load_error",
                             [raised |-> FALSE, called |-> FALSE, added |-> <<>>])
                 ELSE IF add.raised THEN Raised("index_error", add)
                 ELSE Succeeded(filename, file_type, p.documents, add)

\* lines 171 and 205: how the extraction call of the loop body ends for its
\* caller: with a dataset, with the failure value (False, None), or raising
extraction_result(file) ==
    IF file_type_of(basename(file)) = "pdf"
    THEN IF process_single_pdf(file).success THEN "dataset"
         ELSE "failure_value"
    ELSE IF process_excel_to_documents(file).raised THEN "raised"
         ELSE "dataset"

\* a handler that names only the workbook loader's errors
except_catches_LoadOnly(exc) == exc = "load_error"

\* line 219: which exceptions the handler of the loop body catches
except_catches(exc) == TRUE

\* lines 220-227: the record the handler appends, str(e) as the message
handler_result(file, exc) ==
    FileProcessingResult(basename(file), FALSE, 0, <<exc>>,
                         file_type_of(basename(file)))

(***************************************************************************)
(* ChatService (chat_service.py) and the /chat endpoint (chat.py)          *)
(***************************************************************************)
NOT_READY == "The system is not ready. Please try again later."
SORRY == "Sorry, I encountered an error while processing your request."
UNKNOWN == <<"U", "n", "k", "n", "o", "w", "n">>
RETRIEVER_K == 3

\* dict.get(key, default)
Get(dict, key, default) == IF key \in DOMAIN dict THEN dict[key] ELSE default

\* line 59-67: the chain exists iff get_retriever() returned a retriever
setup_qa_chain(vs) == get_retriever(vs, RETRIEVER_K).t = "retriever"

\* a fallback that loses the question
enhance_fallback_Empty(question) == ""

\* line 84: what enhance_question returns when the rewrite call raised
enhance_fallback(question) == question

\* lines 71-84; llm.rewrite_ok is whether llm.ainvoke succeeded
enhance_question(question, llm) ==
    IF llm.rewrite_ok THEN llm.rewritten ELSE enhance_fallback(question)

\* the loop without its seen_files test
source_is_new_Always(filename, seen_files) == TRUE

\* line 110: filename not in seen_files
source_is_new(filename, seen_files) == filename \notin seen_files

\* lines 105-115; pdf_path None is <<>>, a path <<path>>
RECURSIVE build_sources(_, _, _, _)
build_sources(docs, i, sources, seen_files) ==
    IF i > Len(docs) THEN sources
    ELSE LET filename == Get(docs[i].metadata, "filename", UNKNOWN)
         IN  IF source_is_new(filename, seen_files)
             THEN build_sources(docs, i + 1,
                      Append(sources,
                             [filename |-> filename,
                              pdf_path |-> Get(docs[i].metadata, "pdf_path", <<>>)]),
                      seen_files \cup {filename})
             ELSE build_sources(docs, i + 1, sources, seen_files)

\* lines 100-102: RetrievalQA.invoke retrieves, then synthesises; invoking
\* a chain that is None raises
qa_chain_invoke(qa, query, llm) ==
    IF ~qa THEN [exc |-> "attribute_error"]
    ELSE IF ~llm.retrieval_ok THEN [exc |-> "retrieval_error"]
    ELSE IF ~llm.synth_ok THEN [exc |-> "synthesis_error"]
    ELSE [exc |-> "none",
          value |-> [query |-> query, result |-> llm.answer,
                     source_documents |-> llm.retrieved]]

\* get_answer without its guard
not_ready_guard_Never(qa) == FALSE

\* line 88: if not self.qa_chain
not_ready_guard(qa) == ~qa

\* a handler that names only the errors of the generation call
answer_except_catches_SynthesisOnly(exc) == exc = "synthesis_error"

\* line 123: except Exception as e
answer_except_catches(exc) == TRUE

\* the normal return without its enhanced_question entry
normal_answer_NoQuery(chain_result, sources, enhanced) ==
    [answer |-> chain_result.result, sources |-> sources]

\* lines 117-121
normal_answer(chain_result, sources, enhanced) ==
    [answer |-> Get(chain_result, "result", "I couldn't find a good answer."),
     sources |-> sources,
     enhanced_question |-> enhanced]

\* lines 86-128: how get_answer ends, what it returns, and the query it
\* handed to the chain (<<>> when it handed none)
get_answer(qa, question, llm) ==
    IF not_ready_guard(qa)
    THEN [outcome |-> "returned", query |-> <<>>,
          value |-> [answer |-> NOT_READY, sources |-> <<>>]]
    ELSE LET enhanced == enhance_question(question, llm)
             inv == qa_chain_invoke(qa, enhanced, llm)
         IN  IF inv.exc = "none"
             THEN [outcome |-> "returned", query |-> <<enhanced>>,
                   value |-> normal_answer(
                       inv.value,
                       IF "source_documents" \in DOMAIN inv.value
                       THEN build_sources(inv.value.source_documents, 1, <<>>, {})
                       ELSE <<>>,
                       enhanced)]
             ELSE IF answer_except_catches(inv.exc)
             THEN [outcome |-> "returned", query |-> <<enhanced>>,
                   value |-> [answer |-> SORRY, sources |-> <<>>]]
             ELSE [outcome |-> "raised", query |-> <<enhanced>>,
                   value |-> [exc |-> inv.exc]]

\* chat.py 9-14
ChatResponse(res) ==
    [answer |-> res.answer,
     sources |-> res.sources,
     enhanced_question |-> Get(res, "enhanced_question", "")]

NoValue == [none |-> TRUE]

\* the chat service after its module-level construction (chat_service.py
\* 131), which follows that of the vector store service
ChatStarted ==
    /\ qa_chain = setup_qa_chain(vectorstore)
    /\ chat_outcome = "none"
    /\ call = NoValue
    /\ result = NoValue
    /\ response = NoValue
    /\ upload_response = NoValue

ChatIdle ==
    /\ qa_chain = FALSE
    /\ chat_outcome = "none"
    /\ call = NoValue
    /\ result = NoValue
    /\ response = NoValue
    /\ upload_response = NoValue
    /\ server = NoValue

\* the documents the ingestion paths of the repository put into the index
\* for the PDF a.pdf and the spreadsheets f.xlsx and j.xlsx
NameA == <<"a">> \o ExtPdf
NameF == <<"f">> \o ExtXlsx
NameJ == <<"j">> \o ExtXlsx
Stored(uuid, filename) == <<uuid, "_">> \o filename

\* excel_processer.py 51-60
pdf_folder_documents(book, filename, uuid) ==
    create_documents_from_extracted_data(
        extract_info_from_excel(book), filename, "pdf_extraction",
        [original_format |-> "pdf", pdf_path |-> <<Stored(uuid, filename)>>])

IndexableDocs ==
    { pdf_folder_documents(WbNotes, NameA, "1")[1],
      pdf_folder_documents(WbNotes, NameA, "2")[1],
      create_documents_from_excel_sheets(
          extract_info_from_excel(WbNotes), NameF)[1] }

\* the collection as earlier runs of the service left it
StoreStartedWithPoints ==
    \E env \in StartupEnvs, n \in 0..MaxPoints :
        LET s == initialize_vectorstore(env)
        IN  /\ vectorstore = s.vectorstore
            /\ collections = s.collections
            /\ points \in [1..n -> IndexableDocs]
            /\ (points # <<>> =>
                 Collection(COLLECTION_NAME, VECTOR_SIZE) \in env.collections)
            /\ server = [reachable |-> env.reachable,
                         store_constructs |-> env.store_constructs]

\* the server as a start would meet it now, and whether that start would
\* leave the service with a vector store (vector_store.py 41-61)
ServerNow ==
    [reachable |-> server.reachable,
     store_constructs |-> server.store_constructs,
     collections |-> collections]

WouldInitialize == initialize_vectorstore(ServerNow).vectorstore

Questions == {"q1", "q2"}
Rewrites == {"rewritten"}
Answers == {"an answer"}

\* the k most similar documents: min(k, n) distinct points in any order
TopK(pts) ==
    LET m == IF Len(pts) < RETRIEVER_K THEN Len(pts) ELSE RETRIEVER_K
    IN  { [i \in 1..m |-> pts[pos[i]]] :
            pos \in { f \in [1..m -> 1..Len(pts)] :
                        \A a, b \in 1..m : a # b => f[a] # f[b] } }

\* POST /chat: chat.py 7-14 with get_answer.  What a call that is never
\* made would have done is not part of the input: it is fixed to success.
Chat ==
    /\ \E question \in Questions, rewrite_fails \in BOOLEAN,
          retrieval_fails \in BOOLEAN, synth_fails \in BOOLEAN,
          rewritten \in Rewrites, answer \in Answers, retrieved \in TopK(points) :
         LET llm == [rewrite_ok |-> ~rewrite_fails, rewritten |-> rewritten,
                     retrieval_ok |-> ~retrieval_fails,
                     synth_ok |-> ~synth_fails,
                     answer |-> answer,
                     retrieved |-> IF retrieval_fails THEN <<>> ELSE retrieved]
             r == get_answer(qa_chain, question, llm)
         IN  /\ ~qa_chain => ~(rewrite_fails \/ retrieval_fails \/ synth_fails)
             /\ retrieval_fails => ~synth_fails
             /\ call' = [question |-> question, llm |-> llm,
                         indexed |-> Len(points), query |-> r.query,
                         resolved |-> WouldInitialize]
             /\ chat_outcome' = r.outcome
             /\ result' = r.value
             /\ response' = IF r.outcome = "returned" THEN ChatResponse(r.value)
                            ELSE NoValue
    /\ UNCHANGED <<qa_chain, upload_response, server>>
    /\ UNCHANGED <<extractVars, storeVars, batchVars, chunkVars, svcVars>>

UploadFiles ==
    { DiskFile(NameF, "na", TRUE, WbNotes),
      DiskFile(NameJ, "na", TRUE, WbNoMarker),
      DiskFile(<<"h">> \o ExtXls, "na", FALSE, <<>>),
      DiskFile(NameA, "some", TRUE, WbNotes) }

\* POST /upload: upload.py 21-52
UploadFile ==
    /\ Len(points) < MaxPoints
    /\ \E file \in UploadFiles, index_ok \in BOOLEAN :
         IF ~(EndsWith(file.filename, ExtXlsx) \/ EndsWith(file.filename, ExtXls))
         THEN /\ index_ok
              /\ upload_response' = [status |-> 400, documents_processed |-> 0]
              /\ UNCHANGED points
         ELSE LET p == process_excel_to_documents(file)
                  add == add_documents(vectorstore, p.documents, index_ok)
              IN  /\ (~(~p.raised /\ add.called) => index_ok)
                  /\ IF p.raised \/ add.raised
                     THEN /\ upload_response' =
                               [status |-> 500, documents_processed |-> 0]
                          /\ UNCHANGED points
                     ELSE /\ upload_response' =
                               [status |-> 200,
                                documents_processed |-> Len(p.documents)]
                          /\ points' = points \o add.added
    /\ UNCHANGED <<vectorstore, collections>>
    /\ UNCHANGED <<qa_chain, chat_outcome, call, result, response, server>>
    /\ UNCHANGED <<extractVars, batchVars, chunkVars, svcVars>>

\* no document creation under way
ChunkIdle ==
    /\ dataset = <<>>
    /\ selected = NoValue
    /\ made = NoValue
    /\ mixed = NoValue

\* no call of the vector store service on record
SvcIdle ==
    /\ store_call = NoValue
    /\ creates = 0
    /\ starts = 0

NoReport == <<>>

BatchIdle ==
    /\ bpc = "idle"
    /\ max_files = 0
    /\ discovered = <<>>
    /\ all_files = <<>>
    /\ next_i = 1
    /\ file_results = <<>>
    /\ total_documents = 0
    /\ successful_files = 0
    /\ failed_files = 0
    /\ processing_summary = [pdf |-> 0, excel |-> 0]
    /\ report = NoReport
    /\ events = <<>>

\* the service after its module-level construction (vector_store.py 110),
\* against a server that holds nothing or the collection of the service
StoreStarted ==
    \E env \in { e \in StartupEnvs :
                     e.collections \in
                        { {}, {Collection(COLLECTION_NAME, VECTOR_SIZE)} } } :
        LET s == initialize_vectorstore(env)
        IN  /\ vectorstore = s.vectorstore
            /\ collections = s.collections
            /\ points = <<>>

ExtractIdle ==
    /\ xpc = "idle"
    /\ wb = <<>>
    /\ extracted = <<>>

\* the folders a batch is run on: up to MaxFolder distinct files, in the
\* order os.walk yields them
Folders ==
    UNION { { f \in [1..n -> DiskFiles] :
                \A a, b \in 1..n : a # b => f[a] # f[b] } : n \in 0..MaxFolder }

\* lines 145-161: the counters, the walk and the cap
BatchStart ==
    /\ bpc = "idle"
    /\ \E folder \in Folders, cap \in 0..MaxFolder :
         LET files == SelectSeq(folder, LAMBDA f : is_supported(f.filename))
         IN  /\ max_files' = cap
             /\ discovered' = files
             /\ all_files' = cap_files(files, cap)
    /\ bpc' = "loop"
    /\ UNCHANGED <<next_i, file_results, total_documents, successful_files,
                   failed_files, processing_summary, report, events>>
    /\ UNCHANGED <<extractVars, storeVars, chatVars, chunkVars, svcVars>>

\* lines 164-227: one iteration of the loop
ProcessFile ==
    /\ bpc = "loop"
    /\ next_i <= Len(all_files)
    /\ \E index_ok \in BOOLEAN :
         LET file == all_files[next_i]
             t == try_body(file, vectorstore, index_ok)
         IN  /\ (~t.add.called => index_ok)
             /\ events' = Append(events,
                    t.add @@ [extraction |-> extraction_result(file)])
             /\ points' = points \o t.add.added
             /\ IF t.exc = "none"
                THEN /\ file_results' = Append(file_results, t.result)
                     /\ total_documents' = total_documents + t.documents
                     /\ successful_files' = successful_files + t.successful
                     /\ failed_files' = failed_files + t.failed
                     /\ processing_summary' =
                          IF t.kind = "none" THEN processing_summary
                          ELSE [processing_summary EXCEPT ![t.kind] = @ + 1]
                     /\ next_i' = next_i + 1
                     /\ bpc' = "loop"
                ELSE IF except_catches(t.exc)
                THEN /\ file_results' =
                          Append(file_results, handler_result(file, t.exc))
                     /\ failed_files' = failed_files + 1
                     /\ next_i' = next_i + 1
                     /\ bpc' = "loop"
                     /\ UNCHANGED <<total_documents, successful_files,
                                    processing_summary>>
                ELSE /\ bpc' = "raised"
                     /\ UNCHANGED <<file_results, failed_files, next_i,
                                    total_documents, successful_files,
                                    processing_summary>>
    /\ UNCHANGED <<max_files, discovered, all_files, report, vectorstore,
                   collections, extractVars,
                   chatVars, chunkVars, svcVars>>

\* lines 229-237
ReturnReport ==
    /\ bpc = "loop"
    /\ next_i > Len(all_files)
    /\ report' = [total_files_processed |-> Len(all_files),
                  successful_files |-> successful_files,
                  failed_files |-> failed_files,
                  total_documents_processed |-> total_documents,
                  file_results |-> file_results,
                  processing_summary |-> processing_summary]
    /\ bpc' = "returned"
    /\ UNCHANGED <<max_files, discovered, all_files, next_i, file_results,
                   total_documents, successful_files, failed_files,
                   processing_summary, events>>
    /\ UNCHANGED <<extractVars, storeVars, chatVars, chunkVars, svcVars>>

InitBatch ==
    /\ BatchIdle /\ StoreStarted /\ ExtractIdle /\ ChatIdle /\ ChunkIdle
    /\ SvcIdle

NextBatch == BatchStart \/ ProcessFile \/ ReturnReport

SpecBatch == InitBatch /\ [][NextBatch]_vars

(***************************************************************************)
(* Specification of POST /upload-folder (upload.py 55-100): the request's  *)
(* files, the supported ones saved to a temporary directory, the batch of  *)
(* process_folder_files over it, and the response.                         *)
(***************************************************************************)
NO_FILES == "No files provided"
NO_VALID_FILES == "No valid PDF or Excel files found"
FOLDER_ERROR == "Error processing folder"

\* line 94: except Exception; HTTPException is an Exception
folder_except_catches(exc) == TRUE

\* lines 94-95, and how the exception leaves the endpoint when not caught
folder_error_response(exc) ==
    IF folder_except_catches(exc)
    THEN [status |-> 500, detail |-> FOLDER_ERROR]
    ELSE [status |-> 400, detail |-> NO_VALID_FILES]

\* lines 61-92: up to the call of process_folder_files; the clause finally
\* of lines 97-100 removes the directory on every way out of the try
UploadFolder ==
    /\ bpc = "idle"
    /\ upload_response = NoValue
    /\ \E files \in Folders :
         LET saved_files == SelectSeq(files, LAMBDA f : is_supported(f.filename))
         IN  IF files = <<>>
             THEN /\ upload_response' =
                       [endpoint |-> "upload-folder", files |-> files,
                        status |-> 400, detail |-> NO_FILES,
                        temp_dir |-> "none"]
                  /\ UNCHANGED <<bpc, max_files, discovered, all_files>>
             ELSE IF saved_files = <<>>
             THEN /\ upload_response' =
                       [endpoint |-> "upload-folder", files |-> files,
                        temp_dir |-> "removed"]
                         @@ folder_error_response("http_400")
                  /\ UNCHANGED <<bpc, max_files, discovered, all_files>>
             ELSE /\ upload_response' =
                       [endpoint |-> "upload-folder", files |-> files,
                        status |-> 0, detail |-> "", temp_dir |-> "exists"]
                  /\ max_files' = 0
                  /\ discovered' = saved_files
                  /\ all_files' = cap_files(saved_files, 0)
                  /\ bpc' = "loop"
    /\ UNCHANGED <<next_i, file_results, total_documents, successful_files,
                   failed_files, processing_summary, report, events>>
    /\ UNCHANGED <<qa_chain, chat_outcome, call, result, response, server>>
    /\ UNCHANGED <<extractVars, storeVars, chunkVars, svcVars>>

\* lines 90-100: the report is returned, or the exception of the batch is
\* answered with 500; the directory is removed
UploadFolderRespond ==
    /\ bpc \in {"returned", "raised"}
    /\ upload_response # NoValue
    /\ upload_response.status = 0
    /\ upload_response' =
         [upload_response EXCEPT
            !.status = IF bpc = "returned" THEN 200 ELSE 500,
            !.detail = IF bpc = "returned" THEN "" ELSE FOLDER_ERROR,
            !.temp_dir = "removed"]
    /\ UNCHANGED <<qa_chain, chat_outcome, call, result, response, server>>
    /\ UNCHANGED <<extractVars, storeVars, batchVars, chunkVars, svcVars>>

InitFolder ==
    /\ BatchIdle /\ StoreStarted /\ ExtractIdle /\ ChatIdle /\ ChunkIdle
    /\ SvcIdle

NextFolder == UploadFolder \/ ProcessFile \/ ReturnReport \/ UploadFolderRespond

SpecFolder == InitFolder /\ [][NextFolder]_vars

InitChat ==
    /\ StoreStartedWithPoints /\ ChatStarted /\ BatchIdle /\ ExtractIdle
    /\ ChunkIdle /\ SvcIdle

\* what kept the store from initialising is mended: the Qdrant server can
\* be reached and the constructor of the store meets no other failure; the
\* running service is untouched
ServerMended ==
    /\ ~(server.reachable /\ server.store_constructs)
    /\ server' = [reachable |-> TRUE, store_constructs |-> TRUE]
    /\ UNCHANGED <<qa_chain, chat_outcome, call, result, response,
                   upload_response>>
    /\ UNCHANGED <<extractVars, storeVars, batchVars, chunkVars, svcVars>>

\* the process is started again: vector_store.py 110 and chat_service.py 131
\* run anew, against the server as it is
ServiceRestart ==
    /\ LET s == initialize_vectorstore(ServerNow)
       IN  /\ vectorstore' = s.vectorstore
           /\ collections' = s.collections
           /\ qa_chain' = setup_qa_chain(s.vectorstore)
    /\ chat_outcome' = "none"
    /\ call' = NoValue
    /\ result' = NoValue
    /\ response' = NoValue
    /\ upload_response' = NoValue
    /\ UNCHANGED <<points, server>>
    /\ UNCHANGED <<extractVars, batchVars, chunkVars, svcVars>>

NextChat == Chat \/ UploadFile \/ ServerMended \/ ServiceRestart

SpecChat == InitChat /\ [][NextChat]_vars

(***************************************************************************)
(* Specification of the extraction: the input is any sample workbook, the  *)
(* one step applies extract_info_from_excel to it.                         *)
(***************************************************************************)
InitExtract ==
    /\ xpc = "input"
    /\ \E n \in 0..MaxTotalRows, ns \in 1..MaxSheets :
         \E rows \in [1..n -> RowSamples], cuts \in Cuts(n, ns) :
            wb = SheetsOf(rows, cuts)
    /\ extracted = <<>>
    /\ BatchIdle
    /\ vectorstore = FALSE /\ collections = {} /\ points = <<>>
    /\ ChatIdle
    /\ ChunkIdle
    /\ SvcIdle

Extract ==
    /\ xpc = "input"
    /\ extracted' = extract_info_from_excel(wb)
    /\ xpc' = "done"
    /\ UNCHANGED <<wb, storeVars, batchVars, chatVars, chunkVars, svcVars>>

NextExtract == Extract

SpecExtract == InitExtract /\ [][NextExtract]_vars

(***************************************************************************)
(* Specification of document creation: the input is an extracted dataset   *)
(* of up to MaxChunkRows one-cell rows; one step applies the selection of  *)
(* the splitter to its content, another one of the two creation functions. *)
(***************************************************************************)
Xs(n) == [i \in 1..n |-> "x"]

\* cell texts around the thresholds of the selection, an empty and a blank one
CellTexts == { <<>>, <<" ">>, Xs(3), Xs(100), Xs(149), Xs(150), Xs(151) }

\* n rows: the first n - 1 hold body, the last holds last
RowsOf(n, body, last) ==
    [r \in 1..n |-> <<StrCell(IF r < n THEN body ELSE last)>>]

\* the same rows with the last one made of WideCells cells holding last,
\* a line longer than either target size
WideRowsOf(n, body, last) ==
    [r \in 1..n |->
        IF r < n THEN <<StrCell(body)>> ELSE [c \in 1..WideCells |-> StrCell(last)]]

InitChunk ==
    /\ \E n \in 0..MaxChunkRows : \E body, last \in CellTexts :
         /\ n <= 1 => body = last
         /\ n = 0 => last = <<>>
         \* a content of one line is kept short: without a separator in it
         \* the splitter works character by character
         /\ n = 1 => Len(last) <= 3
         /\ \/ dataset = RowsOf(n, body, last)
            \/ /\ n >= 1
               /\ dataset = WideRowsOf(n, body, last)
    /\ selected = NoValue
    /\ made = NoValue
    /\ mixed = NoValue
    /\ BatchIdle
    /\ vectorstore = FALSE /\ collections = {} /\ points = <<>>
    /\ ChatIdle
    /\ ExtractIdle
    /\ SvcIdle

\* get_smart_text_splitter on the content of the dataset
Select ==
    /\ selected = NoValue
    /\ selected' =
         get_smart_text_splitter(convert_extracted_data_to_content(dataset))
    /\ UNCHANGED <<dataset, made, mixed>>
    /\ UNCHANGED <<extractVars, storeVars, batchVars, chatVars, svcVars>>

\* upload.py 175-180: the documents of a PDF's dataset; no splitter is
\* chosen when the function returns at line 149
CreateFromExtractedData ==
    /\ made = NoValue
    /\ LET content == convert_extracted_data_to_content(dataset)
       IN  made' =
             [path |-> "pdf", content |-> content,
              splitter |-> IF dataset = <<>> THEN NoValue
                           ELSE extracted_data_splitter(content),
              documents |-> create_documents_from_extracted_data(
                                dataset, NameA, "pdf_extraction",
                                [original_format |-> "pdf"])]
    /\ UNCHANGED <<dataset, selected, mixed>>
    /\ UNCHANGED <<extractVars, storeVars, batchVars, chatVars, svcVars>>

\* excel_processer.py 30: the documents of a spreadsheet's dataset
CreateFromExcelSheets ==
    /\ made = NoValue
    /\ LET content == convert_extracted_data_to_content(dataset)
       IN  made' =
             [path |-> "excel", content |-> content,
              splitter |-> excel_sheets_splitter(content),
              documents |-> create_documents_from_excel_sheets(dataset, NameF)]
    /\ UNCHANGED <<dataset, selected, mixed>>
    /\ UNCHANGED <<extractVars, storeVars, batchVars, chatVars, svcVars>>

NextChunk == Select \/ CreateFromExtractedData \/ CreateFromExcelSheets

SpecChunk == InitChunk /\ [][NextChunk]_vars

(***************************************************************************)
(* Specification of process_mixed_folder_to_documents (excel_processer.py  *)
(* 65-102): a folder of up to MaxFolder files and a max_files, the loop of *)
(* process_pdf_folder over the listing, the documents of its datasets, and *)
(* the loop over the spreadsheets of the folder as it then is.             *)
(***************************************************************************)
\* a workbook whose notes make more than one chunk
WbLong == << <<RowMarker>> \o RowsOf(MaxChunkRows, Xs(151), Xs(151)) >>

MixedFiles ==
    { DiskFile(<<"a">> \o ExtPdf, "some", TRUE, WbNotes),
      DiskFile(<<"b">> \o ExtPdf, "none", FALSE, <<>>),
      DiskFile(<<"l", ".", "P", "D", "F">>, "some", TRUE, WbLong),
      DiskFile(<<"f">> \o ExtXlsx, "na", TRUE, WbNotes),
      DiskFile(<<"h">> \o ExtXls, "na", FALSE, <<>>),
      DiskFile(<<"n", ".", "t", "x", "t">>, "na", FALSE, <<>>) }

\* os.listdir(folder_path): up to MaxFolder distinct files in some order
MixedFolders ==
    UNION { { f \in [1..n -> MixedFiles] :
                \A a, b \in 1..n : a # b => f[a] # f[b] } : n \in 0..MaxFolder }

\* pdf_processor.py 150
is_pdf(name) == EndsWith(Lower(name), ExtPdf)

\* excel_processer.py 96
is_spreadsheet(name) ==
    EndsWith(Lower(name), ExtXlsx) \/ EndsWith(Lower(name), ExtXls)

\* pdf_processor.py 93-95 and 47-52: the workbook written next to the PDF
converted_workbook(file) ==
    DiskFile(SubSeq(file.filename, 1, Len(file.filename) - Len(ExtPdf))
                \o ExtXlsx,
             "na", file.readable, file.book)

\* pdf_processor.py 146 and excel_processer.py 93: the test before a file
limit_reached(limit, count) == limit # 0 /\ count >= limit

\* excel_processer.py 85: the documents whose source is "pdf_extraction"
count_pdf_documents(documents) ==
    Len(SelectSeq(documents,
            LAMBDA d : Get(d.metadata, "source", <<>>) = "pdf_extraction"))

\* the call, line 65, and lines 80-81 with pdf_processor.py 142-143
MixedStart ==
    /\ mixed = NoValue
    /\ \E folder \in MixedFolders, cap \in 0..MaxFolder :
         mixed' = [pc |-> "pdf", listing |-> folder, max_files |-> cap,
                   i |-> 1, pdf_attempted |-> 0, extracted_data_list |-> <<>>,
                   written |-> <<>>, all_documents |-> <<>>,
                   processed_count |-> 0, remaining_files |-> 0,
                   excel_count |-> 0]
    /\ UNCHANGED <<dataset, selected, made>>
    /\ UNCHANGED <<extractVars, storeVars, batchVars, chatVars, svcVars>>

\* pdf_processor.py 144-164: one file of the listing in process_pdf_folder
PdfFolderStep ==
    /\ mixed # NoValue /\ mixed.pc = "pdf"
    /\ mixed.i <= Len(mixed.listing)
    /\ ~limit_reached(mixed.max_files, mixed.pdf_attempted)
    /\ LET file == mixed.listing[mixed.i]
           r == process_single_pdf(file)
       IN  mixed' =
             IF is_pdf(file.filename)
             THEN [mixed EXCEPT
                     !.i = @ + 1,
                     !.pdf_attempted = @ + 1,
                     !.extracted_data_list =
                        IF r.success /\ r.extracted_data # <<>>
                        THEN Append(@, file) ELSE @,
                     !.written =
                        IF convert_pdf_to_excel(file)
                        THEN Append(@, converted_workbook(file)) ELSE @]
             ELSE [mixed EXCEPT !.i = @ + 1]
    /\ UNCHANGED <<dataset, selected, made>>
    /\ UNCHANGED <<extractVars, storeVars, batchVars, chatVars, svcVars>>

\* the loop left; excel_processer.py 46-63 and 83-90: the documents of the
\* datasets, the count of line 85, the test of line 88 and the listing of
\* line 92, which holds the workbooks written meanwhile
PdfFolderDone ==
    /\ mixed # NoValue /\ mixed.pc = "pdf"
    /\ \/ mixed.i > Len(mixed.listing)
       \/ limit_reached(mixed.max_files, mixed.pdf_attempted)
    /\ LET pdf_docs ==
             ConcatAll([k \in 1..Len(mixed.extracted_data_list) |->
                 pdf_folder_documents(mixed.extracted_data_list[k].book,
                     mixed.extracted_data_list[k].filename, "1")])
           processed_count == count_pdf_documents(pdf_docs)
           enters == mixed.max_files = 0 \/ processed_count < mixed.max_files
       IN  mixed' = [mixed EXCEPT
                       !.pc = IF enters THEN "excel" ELSE "done",
                       !.all_documents = pdf_docs,
                       !.processed_count = processed_count,
                       !.remaining_files =
                          IF enters /\ mixed.max_files # 0
                          THEN mixed.max_files - processed_count ELSE 0,
                       !.listing = mixed.listing \o mixed.written,
                       !.i = 1]
    /\ UNCHANGED <<dataset, selected, made>>
    /\ UNCHANGED <<extractVars, storeVars, batchVars, chatVars, svcVars>>

\* excel_processer.py 92-102: one file of the listing in the second loop
ExcelFolderStep ==
    /\ mixed # NoValue /\ mixed.pc = "excel"
    /\ mixed.i <= Len(mixed.listing)
    /\ ~limit_reached(mixed.remaining_files, mixed.excel_count)
    /\ LET file == mixed.listing[mixed.i]
           p == process_excel_to_documents(file)
       IN  mixed' =
             IF is_spreadsheet(file.filename) /\ ~p.raised
             THEN [mixed EXCEPT
                     !.i = @ + 1,
                     !.all_documents = @ \o p.documents,
                     !.excel_count = @ + 1]
             ELSE [mixed EXCEPT !.i = @ + 1]
    /\ UNCHANGED <<dataset, selected, made>>
    /\ UNCHANGED <<extractVars, storeVars, batchVars, chatVars, svcVars>>

\* line 102: return all_documents
MixedReturn ==
    /\ mixed # NoValue /\ mixed.pc = "excel"
    /\ \/ mixed.i > Len(mixed.listing)
       \/ limit_reached(mixed.remaining_files, mixed.excel_count)
    /\ mixed' = [mixed EXCEPT !.pc = "done"]
    /\ UNCHANGED <<dataset, selected, made>>
    /\ UNCHANGED <<extractVars, storeVars, batchVars, chatVars, svcVars>>

InitMixed ==
    /\ ChunkIdle /\ BatchIdle /\ ChatIdle /\ ExtractIdle /\ SvcIdle
    /\ vectorstore = FALSE /\ collections = {} /\ points = <<>>

NextMixed ==
    MixedStart \/ PdfFolderStep \/ PdfFolderDone \/ ExcelFolderStep
        \/ MixedReturn

SpecMixed == InitMixed /\ [][NextMixed]_vars

(***************************************************************************)
(* Specification of the vector store service: the service is constructed   *)
(* against a server that keeps its collections, is constructed again up to *)
(* MaxRestarts times, and its two methods are called in between.           *)
(***************************************************************************)
\* the record of a construction
InitCall(env, s) ==
    [op |-> "init", reachable |-> env.reachable,
     existed |-> Named(env.collections, COLLECTION_NAME) # {},
     created |-> s.created, ensure_raised |-> s.ensure_raised,
     raised |-> FALSE, log |-> s.log]

\* vector_store.py 110 (and 15-39): the first construction
InitStore ==
    /\ \E env \in StartupEnvs :
         LET s == initialize_vectorstore(env)
         IN  /\ vectorstore = s.vectorstore
             /\ collections = s.collections
             /\ store_call = InitCall(env, s)
             /\ creates = IF s.created THEN 1 ELSE 0
    /\ points = <<>>
    /\ starts = 1
    /\ BatchIdle
    /\ ChatIdle
    /\ ExtractIdle
    /\ ChunkIdle

\* the process is started again: lines 15-39 against the server as it is
Restart ==
    /\ starts < MaxRestarts
    /\ \E reachable \in BOOLEAN, store_constructs \in BOOLEAN :
         LET env == [reachable |-> reachable,
                     store_constructs |-> store_constructs,
                     collections |-> collections]
             s == initialize_vectorstore(env)
         IN  /\ vectorstore' = s.vectorstore
             /\ collections' = s.collections
             /\ store_call' = InitCall(env, s)
             /\ creates' = creates + (IF s.created THEN 1 ELSE 0)
    /\ starts' = starts + 1
    /\ UNCHANGED points
    /\ UNCHANGED <<extractVars, batchVars, chatVars, chunkVars>>

\* line 101: what the store's add_documents meets at the server, which
\* refuses vectors of another size than the collection's
upsert_outcome(cols, index_ok) ==
    IF ~DimensionsAgree(cols) THEN "dimension"
    ELSE IF index_ok THEN "ok" ELSE "index_error"

StoreDocs ==
    { <<>> } \cup { <<d>> : d \in IndexableDocs }
             \cup { <<d, d>> : d \in IndexableDocs }

\* vector_store_service.add_documents(documents), lines 98-101
AddDocumentsCall ==
    /\ Len(points) < MaxPoints
    /\ \E documents \in StoreDocs, index_ok \in BOOLEAN :
         LET outcome == upsert_outcome(collections, index_ok)
             add == add_documents(vectorstore, documents, outcome = "ok")
         IN  /\ ~add.called => index_ok
             /\ points' = points \o add.added
             /\ store_call' =
                  [op |-> "add_documents", documents |-> documents,
                   before |-> points, raised |-> add.raised,
                   called |-> add.called,
                   cause |-> IF add.raised THEN outcome ELSE "none",
                   log |-> add_documents_log(vectorstore, documents)]
    /\ UNCHANGED <<vectorstore, collections, creates, starts>>
    /\ UNCHANGED <<extractVars, batchVars, chatVars, chunkVars>>

\* vector_store_service.get_retriever(k), lines 103-107
GetRetrieverCall ==
    /\ \E k \in 1..MaxK :
         LET r == get_retriever(vectorstore, k)
         IN  store_call' = [op |-> "get_retriever", k |-> k,
                            raised |-> r.t = "raised", returned |-> r]
    /\ UNCHANGED <<storeVars, creates, starts>>
    /\ UNCHANGED <<extractVars, batchVars, chatVars, chunkVars>>

NextStore == Restart \/ AddDocumentsCall \/ GetRetrieverCall

SpecStore == InitStore /\ [][NextStore]_vars

(***************************************************************************)
(* Batch ingestion: what a file is, independently of how it was recorded.  *)
(***************************************************************************)
\* the workbook was obtained and scanned
ExtractionRan(file) ==
    /\ file.readable
    /\ file_type_of(basename(file)) = "pdf" => file.tables = "some"

\* the scan ran and yielded no row
ZeroRows(file) ==
    ExtractionRan(file) /\ extract_info_from_excel(file.book) = <<>>

\* no dataset: conversion failed, the workbook is unreadable, or no row
ExtractionFails(file) == ~ExtractionRan(file) \/ ZeroRows(file)

FailingFiles == { i \in 1..Len(all_files) : ExtractionFails(all_files[i]) }

NoIndexFailure == \A i \in 1..Len(events) : ~events[i].raised

\* C1: in a returned report over N files of which M fail extraction (runs
\* in which nothing but extraction fails), failed_files = M,
\* successful_files = N - M, total_files_processed = N and file_results has
\* one entry per file, in processing order.
C1_ReportCountsExtractionFailures ==
    (bpc = "returned" /\ NoIndexFailure) =>
        LET N == Len(all_files)
            M == Cardinality(FailingFiles)
        IN  /\ report.failed_files = M
            /\ report.successful_files = N - M
            /\ report.total_files_processed = N
            /\ Len(report.file_results) = N
            /\ \A i \in 1..N :
                 report.file_results[i].filename = basename(all_files[i])

\* C2: no failure in one file aborts the batch: the call never raises, every
\* handled file has its own record, in order, the loop stays within the
\* file list until the return, and the report covers every file.
C2_FailureNeverAborts ==
    /\ bpc # "raised"
    /\ bpc \in {"loop", "returned"} =>
         /\ Len(file_results) = next_i - 1
         /\ Len(events) = next_i - 1
         /\ \A i \in 1..Len(file_results) :
              file_results[i].filename = basename(all_files[i])
    /\ bpc = "loop" => next_i <= Len(all_files) + 1
    /\ bpc = "returned" =>
         /\ report.file_results = file_results
         /\ Len(report.file_results) = Len(all_files)

\* a returned batch whose first file failed on load_workbook, whose second
\* failed in add_documents and whose third succeeded
C2_Witness ==
    /\ bpc = "returned"
    /\ Len(report.file_results) = 3
    /\ report.file_results[1].error_message = <<"load_error">>
    /\ report.file_results[2].error_message = <<"index_error">>
    /\ events[2].raised
    /\ report.file_results[3].success

ZeroRowFiles == { i \in 1..Len(all_files) : ZeroRows(all_files[i]) }

\* C3: in a returned report every file whose extraction yielded zero rows is
\* recorded with success = false, documents_processed = 0 and a non-empty
\* error message, and is counted in failed_files, not in successful_files.
C3_ZeroRowsRecordedAsFailure ==
    bpc = "returned" =>
        /\ \A i \in ZeroRowFiles :
             /\ report.file_results[i].success = FALSE
             /\ report.file_results[i].documents_processed = 0
             /\ report.file_results[i].error_message # <<>>
        /\ report.failed_files >= Cardinality(ZeroRowFiles)
        /\ report.successful_files <=
             Len(all_files) - Cardinality(ZeroRowFiles)

(***************************************************************************)
(* The answering pipeline: the paths of get_answer, from the history.      *)
(***************************************************************************)
Asked == chat_outcome # "none"

\* the chain ran to the end: it existed, retrieval and synthesis succeeded
NormalPath ==
    Asked /\ qa_chain /\ call.llm.retrieval_ok /\ call.llm.synth_ok

\* the chain existed and retrieval or synthesis failed
FailurePath ==
    Asked /\ qa_chain /\ ~(call.llm.retrieval_ok /\ call.llm.synth_ok)

C5_FailuresBecomeApology ==
    /\ chat_outcome # "raised"
    /\ FailurePath =>
         /\ chat_outcome = "returned"
         /\ result.answer = SORRY
         /\ result.sources = <<>>

\* synthesis failed over units retrieved from a non-empty index and the
\* apology came back
C5_Witness ==
    /\ chat_outcome = "returned"
    /\ qa_chain
    /\ call.llm.retrieved # <<>>
    /\ ~call.llm.synth_ok
    /\ result.answer = SORRY
    /\ result.sources = <<>>

FilenameOf(doc) == Get(doc.metadata, "filename", UNKNOWN)

\* C6: on the normal path the sources hold no filename twice, hold exactly
\* the filenames of the retrieved units, list them in the order of their
\* first appearance, and carry the path of that first occurrence.
C6_SourcesDeduplicated ==
    NormalPath =>
        LET docs == call.llm.retrieved
            src == result.sources
            First(fn) == CHOOSE i \in 1..Len(docs) :
                            /\ FilenameOf(docs[i]) = fn
                            /\ \A j \in 1..(i - 1) : FilenameOf(docs[j]) # fn
        IN  /\ \A a, b \in 1..Len(src) :
                 a # b => src[a].filename # src[b].filename
            /\ { src[a].filename : a \in 1..Len(src) }
                 = { FilenameOf(docs[i]) : i \in 1..Len(docs) }
            /\ \A a, b \in 1..Len(src) :
                 a < b => First(src[a].filename) < First(src[b].filename)
            /\ \A a \in 1..Len(src) :
                 src[a].pdf_path =
                    Get(docs[First(src[a].filename)].metadata, "pdf_path", <<>>)

\* three units retrieved, the first and the third of the same file under
\* different stored paths: two sources, the first path kept
C6_Witness ==
    /\ NormalPath
    /\ Len(call.llm.retrieved) = 3
    /\ FilenameOf(call.llm.retrieved[1]) = NameA
    /\ FilenameOf(call.llm.retrieved[2]) = NameF
    /\ FilenameOf(call.llm.retrieved[3]) = NameA
    /\ call.llm.retrieved[1].metadata # call.llm.retrieved[3].metadata
    /\ Len(result.sources) = 2
    /\ result.sources[1].pdf_path =
         Get(call.llm.retrieved[1].metadata, "pdf_path", <<>>)
    /\ result.sources[2].filename = NameF

\* C7: when the rewrite call fails, the original question is the query of
\* retrieval and synthesis; if nothing else fails the synthesised answer is
\* returned, not the apology nor the not-ready answer.
C7_RewriteFailureFallsBack ==
    (Asked /\ qa_chain /\ ~call.llm.rewrite_ok) =>
        /\ call.query = <<call.question>>
        /\ NormalPath =>
             /\ chat_outcome = "returned"
             /\ result.answer = call.llm.answer
             /\ result.answer \notin {SORRY, NOT_READY}
             /\ result.enhanced_question = call.question

\* the rewrite failed, the rest succeeded on a non-empty index
C7_Witness ==
    /\ NormalPath
    /\ ~call.llm.rewrite_ok
    /\ call.indexed > 0
    /\ call.query = <<call.question>>
    /\ result.answer = call.llm.answer
    /\ result.sources # <<>>

\* C8 as stated: every result get_answer returns carries an answer, a source
\* list and the enhanced query that was used.
C8_AllThreeParts ==
    chat_outcome = "returned" =>
        {"answer", "sources", "enhanced_question"} \subseteq DOMAIN result

\* C8 amended: every result get_answer returns carries an answer and a
\* source list; it carries the enhanced query, equal to the query handed to
\* the chain, exactly on the normal path; on the not-ready and the
\* caught-failure paths it has no enhanced_question and the endpoint answers
\* with the empty string in that field.
C8_QueryOnlyOnNormalPath ==
    chat_outcome = "returned" =>
        /\ {"answer", "sources"} \subseteq DOMAIN result
        /\ "enhanced_question" \in DOMAIN result <=> NormalPath
        /\ NormalPath => <<result.enhanced_question>> = call.query
        /\ response.answer = result.answer
        /\ response.sources = result.sources
        /\ response.enhanced_question =
             IF NormalPath THEN result.enhanced_question ELSE ""

\* synthesis failed after a successful rewrite: the result has no
\* enhanced_question and the response field is empty
C8_Witness ==
    /\ chat_outcome = "returned"
    /\ FailurePath
    /\ call.llm.rewrite_ok
    /\ call.query = <<call.llm.rewritten>>
    /\ "enhanced_question" \notin DOMAIN result
    /\ response.enhanced_question = ""

(***************************************************************************)
(* What the extraction is meant to return, stated without the scan.        *)
(***************************************************************************)
TriggerRows(sheet) == { i \in 1..Len(sheet) : row_triggers(sheet[i]) }

FirstTrigger(sheet) ==
    CHOOSE i \in TriggerRows(sheet) : \A j \in TriggerRows(sheet) : i <= j

NonNull(row) == { i \in 1..Len(row) : row[i].t # "none" }

\* the rows of a sheet strictly after its first trigger row that hold a
\* non-null cell, in row order
Emitted(sheet) ==
    IF TriggerRows(sheet) = {} THEN <<>>
    ELSE SelectSeq([i \in 1..Len(sheet) |-> i],
                   LAMBDA i : i > FirstTrigger(sheet) /\ NonNull(sheet[i]) # {})

\* s is row with exactly its null cells removed, order kept
IsNullStripped(s, row) ==
    /\ Len(s) = Cardinality(NonNull(row))
    /\ \E f \in [1..Len(s) -> 1..Len(row)] :
         /\ \A a \in 1..Len(s) : f[a] \in NonNull(row) /\ s[a] = row[f[a]]
         /\ \A a, b \in 1..Len(s) : a < b => f[a] < f[b]

\* C9: sheets are scanned independently, each starting with capture off: the
\* dataset is the concatenation, in sheet order, of what each sheet yields on
\* its own; a sheet without a trigger row yields nothing, and a workbook
\* without any trigger row yields the empty dataset.
C9_SheetsIndependent ==
    xpc = "done" =>
        /\ extracted =
             ConcatAll([k \in 1..Len(wb) |-> extract_info_from_excel(<<wb[k]>>)])
        /\ \A k \in 1..Len(wb) :
             TriggerRows(wb[k]) = {} =>
                /\ extract_info_from_excel(<<wb[k]>>) = <<>>
                /\ Len(extracted) =
                     Len(ConcatAll([j \in 1..Len(wb) |->
                            IF j = k THEN <<>>
                            ELSE extract_info_from_excel(<<wb[j]>>)]))
        /\ (\A k \in 1..Len(wb) : TriggerRows(wb[k]) = {}) => extracted = <<>>

\* a two-sheet workbook whose first sheet triggers and yields a row and whose
\* second sheet holds data but no trigger row
C9_Witness ==
    /\ xpc = "done"
    /\ Len(wb) = 2
    /\ TriggerRows(wb[1]) # {}
    /\ TriggerRows(wb[2]) = {}
    /\ \E i \in 1..Len(wb[2]) : NonNull(wb[2][i]) # {}
    /\ extracted # <<>>
    /\ extracted = extract_info_from_excel(<<wb[1]>>)

\* C10: within a sheet, exactly the rows strictly after the first trigger row
\* that hold a non-null cell are emitted, in row order, each with its null
\* cells removed and the others in order; no emitted row is empty; capture
\* never switches off, so a later marker row is emitted as data.
C10_RowsAfterTrigger ==
    xpc = "done" =>
        LET idx == [k \in 1..Len(wb) |-> Emitted(wb[k])]
            expected == ConcatAll([k \in 1..Len(wb) |->
                           [a \in 1..Len(idx[k]) |-> <<k, idx[k][a]>>]])
        IN  /\ Len(extracted) = Len(expected)
            /\ \A a \in 1..Len(extracted) :
                 /\ extracted[a] # <<>>
                 /\ IsNullStripped(extracted[a],
                                   wb[expected[a][1]][expected[a][2]])

\* a sheet with a trigger row, then an all-null row, then a second marker row
\* that is emitted as data
C10_Witness ==
    /\ xpc = "done"
    /\ Len(wb) = 1
    /\ wb[1] = <<RowMarker, RowNull, RowMarkerData>>
    /\ extracted = <<RowMarkerData>>

(***************************************************************************)
(* The marker, stated on the text of the cells.                            *)
(***************************************************************************)
\* some cell of the row, written as text and lowercased, holds the marker
HoldsMarker(row) ==
    \E i \in 1..Len(row) : Contains(Lower(Str(row[i])), MARKER)

MarkerRows(sheet) == { i \in 1..Len(sheet) : HoldsMarker(sheet[i]) }

\* the rows of a sheet after its first marker row
AfterFirstMarker(sheet) ==
    LET first == CHOOSE i \in MarkerRows(sheet) :
                    \A j \in MarkerRows(sheet) : i <= j
    IN  SubSeq(sheet, first + 1, Len(sheet))

Newlines(content) == { i \in 1..Len(content) : content[i] = "\n" }

\* more than 5 lines and a mean line length below 150
ManyShortLines(content) ==
    LET lines == Cardinality(Newlines(content)) + 1
        chars == Len(content) - Cardinality(Newlines(content))
    IN  lines > 5 /\ chars < 150 * lines

\* C12: the strategy selected depends on the content alone: it is the entry
\* strategy (600, 50) iff the content has more than 5 lines and a mean line
\* length below 150, the document strategy (1000, 200) otherwise, and the
\* overlap is smaller than the size.
C12_EntryIffManyShortLines ==
    selected # NoValue =>
        LET content == convert_extracted_data_to_content(dataset)
        IN  /\ ManyShortLines(content) =>
                 selected.chunk_size = 600 /\ selected.chunk_overlap = 50
            /\ ~ManyShortLines(content) =>
                 selected.chunk_size = 1000 /\ selected.chunk_overlap = 200
            /\ selected.chunk_overlap < selected.chunk_size

\* six lines, five of 150 characters and one of 149: the mean is just below
\* 150 and the entry strategy is selected
C12_Witness ==
    /\ selected # NoValue
    /\ dataset = RowsOf(6, Xs(150), Xs(149))
    /\ selected.chunk_size = 600

\* C13: on both creation paths the strategy applied to a document is the one
\* the selection rule gives for its content, and the text units are those of
\* that strategy.
C13_StrategyFromContent ==
    (made # NoValue /\ dataset # <<>>) =>
        /\ made.splitter = get_smart_text_splitter(made.content)
        /\ [i \in 1..Len(made.documents) |-> made.documents[i].page_content]
             = split_text(get_smart_text_splitter(made.content), made.content)

\* C14: an empty dataset and an empty content yield no text unit on either
\* creation path, and no text unit is ever empty.
C14_EmptyInputNoUnits ==
    made # NoValue =>
        /\ (dataset = <<>> \/ made.content = <<>>) => made.documents = <<>>
        /\ \A i \in 1..Len(made.documents) :
             made.documents[i].page_content # <<>>

\* a dataset of one row holding the empty string: the content is empty and
\* the PDF path makes no text unit
C14_Witness ==
    /\ made # NoValue
    /\ made.path = "pdf"
    /\ dataset = RowsOf(1, <<>>, <<>>)
    /\ made.content = <<>>
    /\ made.documents = <<>>

(***************************************************************************)
(* The vector store service.                                               *)
(***************************************************************************)
OwnCollections == Named(collections, COLLECTION_NAME)

\* C15: provisioning is idempotent: the server never holds two collections
\* of the configured name, the service creates it at most once, with
\* dimension 768 and cosine distance; after a start against a reachable
\* server exactly one exists, and a start that finds it creates nothing and
\* meets no error in the provisioning step.
C15_ProvisioningIdempotent ==
    /\ Cardinality(OwnCollections) <= 1
    /\ creates <= 1
    /\ creates = 1 =>
         OwnCollections =
            { [name |-> "building_logs", size |-> 768, distance |-> "Cosine"] }
    /\ (store_call.op = "init" /\ store_call.reachable) =>
         /\ Cardinality(OwnCollections) = 1
         /\ ~store_call.ensure_raised
         /\ ~store_call.raised
         /\ store_call.existed => ~store_call.created

\* a second start against the server on which the first start created the
\* collection: nothing is created and nothing fails
C15_Witness ==
    /\ starts = 2
    /\ creates = 1
    /\ store_call.op = "init"
    /\ store_call.reachable
    /\ store_call.existed
    /\ ~store_call.created
    /\ vectorstore

\* C16: add_documents with an empty list leaves the index as it is and
\* raises nothing; with an index that failed to initialise it leaves the
\* index as it is, raises nothing and writes a log line about the skip.
C16_SkipIsLogged ==
    store_call.op = "add_documents" =>
        /\ store_call.documents = <<>> =>
             ~store_call.raised /\ points = store_call.before
        /\ ~vectorstore =>
             /\ ~store_call.raised
             /\ points = store_call.before
             /\ store_call.log # <<>>

\* C17: with the index not initialised, get_retriever raises nothing and
\* hands back no retriever, hence no unit, for every k.
C17_NoRetrieverNoError ==
    (store_call.op = "get_retriever" /\ ~vectorstore) =>
        /\ ~store_call.raised
        /\ store_call.returned = [t |-> "none"]

\* the collection holds units, the service was started again without
\* reaching the server, and get_retriever(3) returned None
C17_Witness ==
    /\ store_call.op = "get_retriever"
    /\ store_call.k = 3
    /\ ~vectorstore
    /\ points # <<>>
    /\ ~store_call.raised
    /\ store_call.returned.t = "none"

Capped == IF max_files < Len(discovered) THEN max_files ELSE Len(discovered)

\* C18: with a cap given, the file list is cut to the first
\* min(N, max_files) discovered files before the loop starts: only these are
\* handled, in discovery order, only their units reach the index, and the
\* report covers exactly them.
C18_CapBeforeProcessing ==
    (bpc # "idle" /\ max_files > 0) =>
        /\ all_files = SubSeq(discovered, 1, Capped)
        /\ Len(file_results) <= Capped
        /\ Len(events) <= Capped
        /\ \A i \in 1..Len(file_results) :
             file_results[i].filename = basename(discovered[i])
        /\ \A j \in 1..Len(points) :
             \E i \in 1..Capped :
                points[j].metadata.filename = basename(discovered[i])
        /\ bpc = "returned" =>
             /\ report.total_files_processed = Capped
             /\ Len(report.file_results) = Capped

\* three files discovered, a cap of two: the third, which would have been
\* indexed, is not in the report and left no unit in the index
C18_Witness ==
    /\ bpc = "returned"
    /\ max_files = 2
    /\ Len(discovered) = 3
    /\ ~ExtractionFails(discovered[3])
    /\ report.total_files_processed = 2
    /\ points # <<>>
    /\ \A j \in 1..Len(points) :
         points[j].metadata.filename # basename(discovered[3])

\* the workbook of the file exists and cannot be loaded
UnreadableWorkbook(file) ==
    /\ ~file.readable
    /\ file_type_of(basename(file)) = "pdf" => convert_pdf_to_excel(file)

\* C19: for a file whose workbook cannot be loaded, the extraction call
\* ends with the failure value and never raises, be the file a PDF or a
\* spreadsheet.
C19_UnreadableIsFailureValue ==
    \A i \in 1..Len(events) :
        UnreadableWorkbook(all_files[i]) =>
            events[i].extraction = "failure_value"

(***************************************************************************)
(* The metadata of the text units.                                         *)
(***************************************************************************)
\* C21: every text unit made from a file, spreadsheet or PDF, carries the
\* keys filename, source and original_format, and the units of one file
\* carry the same values for them.
C21_UnitsCarryThreeKeys ==
    made # NoValue =>
        /\ \A i \in 1..Len(made.documents) :
             {"filename", "source", "original_format"}
                 \subseteq DOMAIN made.documents[i].metadata
        /\ \A i, j \in 1..Len(made.documents) :
             made.documents[i].metadata = made.documents[j].metadata

(***************************************************************************)
(* The chunks against the content they were cut from.                      *)
(***************************************************************************)
\* the page contents of the units made
ChunkTexts == [i \in 1..Len(made.documents) |-> made.documents[i].page_content]

OccursAt(text, sub, p) ==
    /\ p >= 1
    /\ p + Len(sub) - 1 <= Len(text)
    /\ \A j \in 1..Len(sub) : text[p + j - 1] = sub[j]

AllSpace(text, a, b) == \A i \in a..b : IsSpace(text[i])

\* chunks i.. lie in content one after the other, each starting at most
\* overlap characters before the end of its predecessor and reaching past
\* it, up to the end of content; with gaps, whitespace may lie between two
\* chunks, before the first and after the last
RECURSIVE Covers(_, _, _, _, _, _)
Covers(content, chunks, i, end_prev, overlap, gaps) ==
    IF i > Len(chunks)
    THEN IF gaps THEN AllSpace(content, end_prev + 1, Len(content))
         ELSE end_prev = Len(content)
    ELSE \E p \in 1..Len(content) :
           /\ p >= end_prev + 1 - (IF i = 1 THEN 0 ELSE overlap)
           /\ IF gaps THEN AllSpace(content, end_prev + 1, p - 1)
              ELSE p <= end_prev + 1
           /\ OccursAt(content, chunks[i], p)
           /\ p + Len(chunks[i]) - 1 > end_prev
           /\ Covers(content, chunks, i + 1, p + Len(chunks[i]) - 1,
                     overlap, gaps)

file_units(file) ==
    LET filename == basename(file)
    IN  IF file_type_of(filename) = "pdf"
        THEN LET r == process_single_pdf(file)
             IN  IF r.success /\ r.extracted_data # <<>>
                 THEN create_documents_from_extracted_data(
                          r.extracted_data, filename, "pdf_extraction",
                          [original_format |-> "pdf"])
                 ELSE <<>>
        ELSE LET p == process_excel_to_documents(file)
             IN  IF p.raised THEN <<>> ELSE p.documents

\* the units of the files recorded as successes among the first n handled
RECURSIVE UnitsOfSuccesses(_)
UnitsOfSuccesses(n) ==
    IF n = 0 THEN <<>>
    ELSE UnitsOfSuccesses(n - 1)
           \o (IF file_results[n].success THEN file_units(all_files[n])
               ELSE <<>>)

\* C23: at every point of a batch the index holds the units of every file
\* of the prefix handled so far that was processed successfully, in order,
\* and no unit of a file not yet reached.
C23_IndexHoldsPrefix ==
    bpc \in {"loop", "returned", "raised"} =>
        points = UnitsOfSuccesses(Len(file_results))

(***************************************************************************)
(* The chat service after a failed start of the index.                     *)
(***************************************************************************)
\* C24: after a start at which the index could not be initialised, a query
\* asked once the failure is resolved (the server can be reached and the
\* store would initialise) is answered normally, not with the not-ready
\* answer.
C24_ResumesOnceResolved ==
    (chat_outcome = "returned" /\ call.resolved) => result.answer # NOT_READY

(***************************************************************************)
(* The batch report against its per-file results.                          *)
(***************************************************************************)
RECURSIVE SumDocumentsProcessed(_)
SumDocumentsProcessed(results) ==
    IF results = <<>> THEN 0
    ELSE Head(results).documents_processed
           + SumDocumentsProcessed(Tail(results))

SuccessesOfKind(results, kind) ==
    { i \in 1..Len(results) :
        results[i].success /\ results[i].file_type = kind }

\* C25: in the report of every run the total of documents is the sum over
\* the per-file results, each per-kind count is the number of successful
\* results of that kind, the per-kind counts sum to successful_files, and
\* every failed result has documents_processed = 0.
C25_ReportConsistent ==
    report # NoReport =>
        /\ report.total_documents_processed
             = SumDocumentsProcessed(report.file_results)
        /\ \A kind \in {"pdf", "excel"} :
             report.processing_summary[kind]
               = Cardinality(SuccessesOfKind(report.file_results, kind))
        /\ report.processing_summary["pdf"] + report.processing_summary["excel"]
             = report.successful_files
        /\ \A i \in 1..Len(report.file_results) :
             ~report.file_results[i].success
                => report.file_results[i].documents_processed = 0

\* a report over a PDF and a spreadsheet that succeeded with documents and a
\* file that failed
C25_Witness ==
    /\ report # NoReport
    /\ Len(report.file_results) = 3
    /\ report.processing_summary = [pdf |-> 1, excel |-> 1]
    /\ report.failed_files = 1
    /\ report.total_documents_processed >= 2

(***************************************************************************)
(* The cap of process_mixed_folder_to_documents.                           *)
(***************************************************************************)
\* C26: with max_files = m given, the PDF files attempted plus the
\* spreadsheet files processed never exceed m.
C26_AtMostMaxFiles ==
    (mixed # NoValue /\ mixed.max_files > 0) =>
        mixed.pdf_attempted + mixed.excel_count <= mixed.max_files

(***************************************************************************)
(* Successes of the report against the index.                              *)
(***************************************************************************)
\* C27: a file is recorded as a success only if its text units were added
\* to the index, as many as its documents_processed says, and no file is
\* recorded as a success when the index failed to initialise.
C27_SuccessMeansIndexed ==
    \A i \in 1..Len(file_results) :
        file_results[i].success =>
            /\ vectorstore
            /\ events[i].added = file_units(all_files[i])
            /\ Len(events[i].added) = file_results[i].documents_processed

(***************************************************************************)
(* POST /upload-folder without a supported file.                           *)
(***************************************************************************)
\* C28: a request whose files all have an unsupported extension is answered
\* with 400 'No valid PDF or Excel files found', nothing is processed and
\* the temporary directory is removed.
C28_NoValidFilesIs400 ==
    (/\ upload_response # NoValue
     /\ upload_response.files # <<>>
     /\ \A i \in 1..Len(upload_response.files) :
          ~is_supported(upload_response.files[i].filename)) =>
        /\ upload_response.status = 400
        /\ upload_response.detail = NO_VALID_FILES
        /\ file_results = <<>> /\ points = <<>>
        /\ upload_response.temp_dir = "removed"

====
